---- MODULE Spec2Model ----
(***************************************************************************)
(* The common-templates operand of the SSP operator                        *)
(* (internal/operands/common-templates/reconcile.go).                      *)
(*                                                                         *)
(* State: the resource store (the cluster), the package-level bundle cache *)
(* (loadTemplatesOnce, templatesBundle) and, per invocation hosted by the  *)
(* process, the position of Reconcile or Cleanup in its code.              *)
(*                                                                         *)
(* The engine behind common.CreateOrUpdate(...).Reconcile(), the           *)
(* aggregator common.CollectResourceStatus, ReadTemplates and the new*     *)
(* object constructors are not part of reconcile.go; they are modelled     *)
(* from the design document (sections 3, 4.1, 4.2 and 8).                  *)
(***************************************************************************)
EXTENDS Integers, Sequences, FiniteSets, TLC

\* ------------------------------------------------------------- bounds
MaxProcs == 2
BundleSize == 2
MaxStale == 3
MaxTamper == 1

Procs == 1..MaxProcs

\* ---------------------------------------------------------- constants
operandName == "common-templates"
operandComponent == "templating"
GoldenImagesNSname == "kubevirt-os-images"
Version == "v2"
OlderVersion == "v1"

\* A label key is the pair (prefix up to and including "/", rest).
TemplateTypeLabel == <<"template.kubevirt.io/", "type">>
TemplateVersionLabel == <<"template.kubevirt.io/", "version">>
TemplateOsLabelPrefix == "os.template.kubevirt.io/"
TemplateFlavorLabelPrefix == "flavor.template.kubevirt.io/"
TemplateWorkloadLabelPrefix == "workload.template.kubevirt.io/"
TemplateDeprecatedAnnotation == <<"template.kubevirt.io/", "deprecated">>
AppNameLabel == <<"app.kubernetes.io/", "name">>
AppComponentLabel == <<"app.kubernetes.io/", "component">>

\* strings.HasPrefix on a label key
HasPrefix(key, prefix) == key[1] = prefix

\* The target namespaces a request may carry
\* (request.Instance.Spec.CommonTemplates.Namespace).
Namespaces == {"nsA", "nsB"}

\* ------------------------------------------------------------- maps
EmptyMap == [k \in {} |-> ""]

MapSet(m, k, v) == [x \in DOMAIN m \cup {k} |-> IF x = k THEN v ELSE m[x]]

\* Every entry of top written over base; the keys only base has are kept.
MapOverlay(base, top) ==
    [x \in DOMAIN base \cup DOMAIN top |-> IF x \in DOMAIN top THEN top[x] ELSE base[x]]

MapRemove(m, keys) == [x \in DOMAIN m \ keys |-> m[x]]

Has(m, k, v) == k \in DOMAIN m /\ m[k] = v

\* ----------------------------------------------------------- objects
\* rv is the store's optimistic-concurrency token and created the creation
\* time the store stamps; both are 0 on an object that was not read from the
\* store.
NewObject(kind, ns, name, labels, body) ==
    [kind |-> kind, ns |-> ns, name |-> name, labels |-> labels,
     annotations |-> EmptyMap, body |-> body, rv |-> 0, created |-> 0]

NoObject == [kind |-> "NotFound"]

KeyOf(obj) == <<obj.kind, obj.ns, obj.name>>

newGoldenImagesNS(name) ==
    NewObject("Namespace", "", <<name, 0>>, EmptyMap, EmptyMap)

newViewRole(ns) ==
    NewObject("Role", ns, <<"os-images.kubevirt.io:view", 0>>, EmptyMap,
              [Rules |-> "view-rules"])

newViewRoleBinding(ns) ==
    NewObject("RoleBinding", ns, <<"os-images.kubevirt.io:view", 0>>, EmptyMap,
              [Subjects |-> "system:authenticated", RoleRef |-> "os-images.kubevirt.io:view"])

newEditRole ==
    NewObject("ClusterRole", "", <<"os-images.kubevirt.io:edit", 0>>, EmptyMap,
              [Rules |-> "edit-rules", AggregationRule |-> "none"])

\* The i-th template of the bundle file common-templates-<Version>.yaml, as
\* ReadTemplates decodes it (the file names no namespace).
BundleTemplate(i) ==
    NewObject("Template", "", <<"common", i>>,
              (TemplateTypeLabel :> "base") @@ (TemplateVersionLabel :> Version),
              [Objects |-> "vm", Parameters |-> "params", Message |-> "msg"])

\* ReadTemplates(filename): the decoded templates and the error.
ReadTemplates(file) ==
    IF file = "ok" THEN [bundle |-> [i \in 1..BundleSize |-> BundleTemplate(i)], err |-> "nil"]
    ELSE IF file = "empty" THEN [bundle |-> <<>>, err |-> "nil"]
    ELSE [bundle |-> <<>>, err |-> "ReadError"]

FixedKeys ==
    {KeyOf(newGoldenImagesNS(GoldenImagesNSname)), KeyOf(newViewRole(GoldenImagesNSname)),
     KeyOf(newViewRoleBinding(GoldenImagesNSname)), KeyOf(newEditRole)}

TemplateNames ==
    {<<"common", i>> : i \in 1..BundleSize} \cup {<<"legacy", i>> : i \in 1..MaxStale}
        \cup {<<"custom", 1>>}

TemplateKeys == {<<"Template", ns, n>> : ns \in Namespaces, n \in TemplateNames}

Keys == FixedKeys \cup TemplateKeys

\* ------------------------------------------------------------- errors
NilErr == [code |-> "nil"]

StoreErr(code, call, key) == [code |-> code, call |-> call, key |-> key]

\* errors.IsNotFound
IsNotFound(err) == err.code = "NotFound"

\* --------------------------------------------------- the resource store
\* request.Client.Get
ClientGet(st, key) == st[key]

\* request.Client.Create: the object must not exist yet; the store issues
\* the version token.
ClientCreate(st, obj, clock) ==
    IF st[KeyOf(obj)] # NoObject
    THEN [store |-> st, err |-> StoreErr("AlreadyExists", "Create", KeyOf(obj))]
    ELSE [store |-> [st EXCEPT ![KeyOf(obj)] = [obj EXCEPT !.rv = clock, !.created = clock]],
          err |-> NilErr]

\* request.Client.Update: rejected when the object is gone or when its
\* version token is not the stored one.
ClientUpdate(st, obj, clock) ==
    IF st[KeyOf(obj)] = NoObject
    THEN [store |-> st, err |-> StoreErr("NotFound", "Update", KeyOf(obj))]
    ELSE IF st[KeyOf(obj)].rv # obj.rv
    THEN [store |-> st, err |-> StoreErr("Conflict", "Update", KeyOf(obj))]
    ELSE [store |-> [st EXCEPT ![KeyOf(obj)] = [obj EXCEPT !.rv = clock]], err |-> NilErr]

\* request.Client.Delete
ClientDelete(st, key) ==
    IF st[key] = NoObject
    THEN [store |-> st, err |-> StoreErr("NotFound", "Delete", key)]
    ELSE [store |-> [st EXCEPT ![key] = NoObject], err |-> NilErr]

\* labels.NewRequirement(key, selection.Equals, {value})
ReqEquals(labels, key, value) == key \in DOMAIN labels /\ labels[key] = value

\* labels.NewRequirement(key, selection.NotEquals, {value}): an object
\* without the key matches.
ReqNotEquals(labels, key, value) == key \notin DOMAIN labels \/ labels[key] # value

\* Mutant of templatesSelector: the version requirement is left out.
templatesSelectorNoVersion(labels) == ReqEquals(labels, TemplateTypeLabel, "base")

templatesSelector(labels) ==
    /\ ReqEquals(labels, TemplateTypeLabel, "base")
    /\ ReqNotEquals(labels, TemplateVersionLabel, Version)

\* The store returns a list ordered by name.
TemplateNameSeq ==
    [i \in 1..BundleSize |-> <<"common", i>>] \o <<<<"custom", 1>>>>
        \o [i \in 1..MaxStale |-> <<"legacy", i>>]

\* Mutant of ListNamespace: the list is not scoped to a namespace.
ListAnyNamespace(ns, objNs) == TRUE

\* client.ListOptions{Namespace: ...}
ListNamespace(ns, objNs) == objNs = ns

RECURSIVE ListFrom(_, _, _)
ListFrom(st, keys, ns) ==
    IF keys = <<>> THEN <<>>
    ELSE LET obj == st[Head(keys)]
         IN  (IF /\ obj # NoObject
                 /\ ListNamespace(ns, obj.ns)
                 /\ templatesSelector(obj.labels)
              THEN <<obj>> ELSE <<>>) \o ListFrom(st, Tail(keys), ns)

NamespaceSeq == <<"nsA", "nsB">>

\* request.Client.List(ctx, existingTemplates, {LabelSelector, Namespace})
ClientList(st, ns) ==
    ListFrom(st, [i \in 1..(Len(NamespaceSeq) * Len(TemplateNameSeq)) |->
                    <<"Template", NamespaceSeq[((i - 1) \div Len(TemplateNameSeq)) + 1],
                      TemplateNameSeq[((i - 1) % Len(TemplateNameSeq)) + 1]>>], ns)

\* ------------------------------------------------- reconcile functions
Func(fn) == [fn |-> fn, template |-> NoObject, index |-> 0]

\* Mutant of FixedFuncs: the binding is reconciled before the role it binds.
FixedFuncsBindingFirst ==
    <<Func("reconcileGoldenImagesNS"), Func("reconcileViewRoleBinding"),
      Func("reconcileViewRole"), Func("reconcileEditRole")>>

FixedFuncs ==
    <<Func("reconcileGoldenImagesNS"), Func("reconcileViewRole"),
      Func("reconcileViewRoleBinding"), Func("reconcileEditRole")>>

\* Mutant of AppendFuncs: the new functions are put in front.
PrependFuncs(funcs, more) == more \o funcs

\* funcs = append(funcs, more...)
AppendFuncs(funcs, more) == funcs \o more

\* The object an operation hands to ClusterResource(...). A bundle template
\* is the element of the shared templatesBundle, read when the call is made.
Resource(op, bundle) ==
    CASE op.fn = "reconcileGoldenImagesNS" -> newGoldenImagesNS(GoldenImagesNSname)
      [] op.fn = "reconcileViewRole" -> newViewRole(GoldenImagesNSname)
      [] op.fn = "reconcileViewRoleBinding" -> newViewRoleBinding(GoldenImagesNSname)
      [] op.fn = "reconcileEditRole" -> newEditRole
      [] op.fn = "reconcileOlderTemplate" -> op.template
      [] op.fn = "reconcileTemplate" -> bundle[op.index]
      [] op.fn = "newGoldenImagesNS" -> newGoldenImagesNS(GoldenImagesNSname)
      [] op.fn = "newViewRole" -> newViewRole(GoldenImagesNSname)
      [] op.fn = "newViewRoleBinding" -> newViewRoleBinding(GoldenImagesNSname)
      [] op.fn = "newEditRole" -> newEditRole
      [] op.fn = "templatesBundle" -> bundle[op.index]

reconcileViewRoleUpdateFunc(newRes, foundRes) ==
    [foundRes EXCEPT !.body.Rules = newRes.body.Rules]

reconcileViewRoleBindingUpdateFunc(newRes, foundRes) ==
    [foundRes EXCEPT !.body.Subjects = newRes.body.Subjects,
                     !.body.RoleRef = newRes.body.RoleRef]

\* Mutant of reconcileEditRoleUpdateFunc: the whole role is replaced.
reconcileEditRoleUpdateFuncReplace(newRes, foundRes) ==
    [foundRes EXCEPT !.body = newRes.body, !.labels = newRes.labels]

reconcileEditRoleUpdateFunc(newRes, foundRes) ==
    [foundRes EXCEPT !.body.Rules = newRes.body.Rules]

ReservedPrefix(key) ==
    \/ HasPrefix(key, TemplateOsLabelPrefix)
    \/ HasPrefix(key, TemplateFlavorLabelPrefix)
    \/ HasPrefix(key, TemplateWorkloadLabelPrefix)

\* Mutant of olderTemplateUpdateFunc: an owner label is put on or taken off.
olderTemplateUpdateFuncFlip(newRes, foundRes) ==
    [foundRes EXCEPT !.labels =
        IF <<"example.com/", "team">> \in DOMAIN @
        THEN MapRemove(@, {k \in DOMAIN @ : ReservedPrefix(k) \/ k = <<"example.com/", "team">>})
        ELSE MapSet(MapRemove(@, {k \in DOMAIN @ : ReservedPrefix(k)}),
                    <<"example.com/", "team">>, "virt")]

\* Mutant of olderTemplateUpdateFunc: every label is deleted.
olderTemplateUpdateFuncAllLabels(newRes, foundRes) ==
    [foundRes EXCEPT !.labels = EmptyMap]

olderTemplateUpdateFunc(newRes, foundRes) ==
    [foundRes EXCEPT !.labels = MapRemove(@, {k \in DOMAIN @ : ReservedPrefix(k)})]

\* Mutant of templateUpdateFunc: the two fields are copied crosswise.
templateUpdateFuncCrossed(newRes, foundRes) ==
    [foundRes EXCEPT !.body.Objects = newRes.body.Parameters,
                     !.body.Parameters = newRes.body.Objects]

templateUpdateFunc(newRes, foundRes) ==
    [foundRes EXCEPT !.body.Objects = newRes.body.Objects,
                     !.body.Parameters = newRes.body.Parameters]

\* The function given to UpdateFunc(...); reconcileGoldenImagesNS gives none.
UpdateFunc(op, newRes, foundRes) ==
    CASE op.fn = "reconcileGoldenImagesNS" -> foundRes
      [] op.fn = "reconcileViewRole" -> reconcileViewRoleUpdateFunc(newRes, foundRes)
      [] op.fn = "reconcileViewRoleBinding" -> reconcileViewRoleBindingUpdateFunc(newRes, foundRes)
      [] op.fn = "reconcileEditRole" -> reconcileEditRoleUpdateFunc(newRes, foundRes)
      [] op.fn = "reconcileOlderTemplate" -> olderTemplateUpdateFunc(newRes, foundRes)
      [] op.fn = "reconcileTemplate" -> templateUpdateFunc(newRes, foundRes)

\* ------------------------------------------- the create-or-update engine
ManagedLabelSet(name, component) ==
    (AppNameLabel :> name) @@ (AppComponentLabel :> component)

\* WithAppLabels(operandName, operandComponent)
WithAppLabels(obj, name, component) ==
    [obj EXCEPT !.labels = MapOverlay(@, ManagedLabelSet(name, component))]

\* The desired object of one call.
Desired(op, bundle) == WithAppLabels(Resource(op, bundle), operandName, operandComponent)

\* The found object with the managed labels and the desired annotations
\* asserted on it, then merged by the operation's update function.
Merged(op, desired, foundRes) ==
    UpdateFunc(op, desired,
               [foundRes EXCEPT
                   !.labels = MapOverlay(@, ManagedLabelSet(operandName, operandComponent)),
                   !.annotations = MapOverlay(@, desired.annotations)])

\* What Reconcile() does once the existing object was fetched: the store
\* call it issues, the object it sends and the status it reports.
EngineDecide(op, desired, foundRes) ==
    IF foundRes = NoObject
    THEN [call |-> "Create", obj |-> desired, status |-> "Created"]
    ELSE LET m == Merged(op, desired, foundRes)
         IN  IF m = foundRes
             THEN [call |-> "None", obj |-> foundRes, status |-> "Unchanged"]
             ELSE [call |-> "Update", obj |-> m, status |-> "Updated"]

\* -------------------------------------------------------------- state
VARIABLES
    store,              \* key -> stored object, or NoObject
    rvClock,            \* key -> the last version token the store issued for it
    bundleFile,         \* what the bundle file holds: "ok", "empty", "unreadable"
    loadTemplatesOnce,  \* sync.Once: "new", "running" (its mutex is held), "done"
    templatesBundle,    \* the package-level []templatev1.Template
    proc,               \* per invocation: its position and its locals
    host,               \* how invocations are run: "sequential", "concurrent",
                        \* or "contended" (one invocation beside other clients)
    tampered,           \* writes of other clients of the store so far
    reads,              \* history: executions of ReadTemplates
    calls,              \* history: per invocation, its completed engine calls
    attempts,           \* history: per invocation, the deletes Cleanup issued
    planned,            \* history: per invocation, the store when List was called
    lastCall            \* history: key -> the last engine call on it, while no
                        \* other write touched the key since

vars == <<store, rvClock, bundleFile, loadTemplatesOnce, templatesBundle, proc,
          host, tampered, reads, calls, attempts, planned, lastCall>>

NoResult == [statuses |-> <<>>, err |-> [code |-> "none"]]

IdleProc ==
    [pc |-> "idle", request |-> [op |-> "none", ns |-> ""], funcs |-> <<>>,
     listErr |-> [code |-> "none"], bundleFuncs |-> <<>>, rangeLen |-> 0, idx |-> 0, found |-> NoObject,
     statuses |-> <<>>, result |-> NoResult]

Quiet(p) == proc[p].pc \in {"idle", "done", "panicked"}

\* Invocations start in the order of their numbers; a sequential host
\* starts one only when no other is running.
MayBegin(p) ==
    /\ proc[p].pc = "idle"
    /\ \A q \in Procs : q < p => proc[q].pc # "idle"
    /\ host = "sequential" => \A q \in Procs : Quiet(q)
    /\ host = "contended" => p = 1

TargetNamespaces == IF host = "concurrent" THEN Namespaces ELSE {"nsA"}

\* ------------------------------------------------------ initial stores
Stored(obj) == [obj EXCEPT !.rv = 1, !.created = 1]

Drifted(obj) == [obj EXCEPT !.body = [f \in DOMAIN @ |-> "drifted"]]

ReservedLabel(i) ==
    CASE i % 3 = 1 -> <<TemplateOsLabelPrefix, "rhel7">>
      [] i % 3 = 2 -> <<TemplateFlavorLabelPrefix, "small">>
      [] OTHER -> <<TemplateWorkloadLabelPrefix, "server">>

OwnerLabel == <<"example.com/", "team">>

DescriptionAnnotation == <<"", "description">>

\* A base template deployed by an older version of the operator.
StaleTemplate(ns, name, i) ==
    [NewObject("Template", ns, name,
               (TemplateTypeLabel :> "base") @@ (TemplateVersionLabel :> OlderVersion)
                   @@ (ReservedLabel(i) :> "true") @@ (OwnerLabel :> "virt"),
               [Objects |-> "vm-old", Parameters |-> "params-old", Message |-> "msg-old"])
        EXCEPT !.annotations = (DescriptionAnnotation :> "legacy")]

Deprecated(obj) ==
    [obj EXCEPT !.annotations = MapSet(@, TemplateDeprecatedAnnotation, "true")]

CustomVariants ==
    LET t == StaleTemplate("nsA", <<"custom", 1>>, 1)
    IN  {NoObject,
         \* not a base template
         [t EXCEPT !.labels = MapRemove(@, {TemplateTypeLabel})],
         [t EXCEPT !.labels = MapSet(@, TemplateTypeLabel, "user")],
         \* a base template of the current version
         [t EXCEPT !.labels = MapSet(@, TemplateVersionLabel, Version)],
         \* a base template without a version label
         [t EXCEPT !.labels = MapRemove(@, {TemplateVersionLabel})],
         \* a stale template of another namespace
         StaleTemplate("nsB", <<"custom", 1>>, 1),
         \* a stale template that was migrated before
         Deprecated(WithAppLabels(olderTemplateUpdateFunc(t, t), operandName, operandComponent)),
         \* a migrated stale template to which a reserved label was added again
         Deprecated(WithAppLabels(t, operandName, operandComponent))}

\* A bundle template as an older version of the operator deployed it under
\* the same name; any other object in its desired form.
Outdated(obj) ==
    IF obj.kind # "Template" THEN WithAppLabels(obj, operandName, operandComponent)
    ELSE [WithAppLabels(obj, operandName, operandComponent) EXCEPT
             !.labels = MapSet(MapSet(@, TemplateVersionLabel, OlderVersion),
                               ReservedLabel(1), "true"),
             !.body = [f \in DOMAIN @ |-> "older"]]

InitObject(variant, obj) ==
    CASE variant = "absent" -> NoObject
      [] variant = "desired" -> Stored(WithAppLabels(obj, operandName, operandComponent))
      [] variant = "drifted" -> Stored(Drifted(obj))
      [] variant = "outdated" -> Stored(Outdated(obj))

FixedObject(key) ==
    CHOOSE o \in {newGoldenImagesNS(GoldenImagesNSname), newViewRole(GoldenImagesNSname),
                  newViewRoleBinding(GoldenImagesNSname), newEditRole} : KeyOf(o) = key

\* The objects Reconcile owns in namespace nsA.
OwnedKeys == FixedKeys \cup {<<"Template", "nsA", <<"common", i>>>> : i \in 1..BundleSize}

NoKey == <<>>

\* A store: the owned objects as the variant says, but for the one at key
\* flip, which is absent where the others are present and present where
\* they are absent; the first stale legacy templates; one custom template.
InitStore(owned, flip, stale, custom) ==
    [k \in Keys |->
        IF k \in OwnedKeys
        THEN LET obj == IF k \in FixedKeys THEN FixedObject(k)
                        ELSE [BundleTemplate(k[3][2]) EXCEPT !.ns = "nsA"]
             IN  IF k # flip THEN InitObject(owned, obj)
                 ELSE IF owned = "absent" THEN InitObject("desired", obj)
                 ELSE NoObject
        ELSE IF k[2] = "nsA" /\ k[3][1] = "legacy" /\ k[3][2] <= stale
        THEN Stored(StaleTemplate("nsA", k[3], k[3][2]))
        ELSE IF custom # NoObject /\ k = KeyOf(custom) THEN Stored(custom)
        ELSE NoObject]

InitRest ==
    /\ rvClock = [k \in Keys |-> 1]
    /\ loadTemplatesOnce = "new"
    /\ templatesBundle = <<>>
    /\ proc = [p \in Procs |-> IdleProc]
    /\ tampered = 0
    /\ reads = 0
    /\ calls = [p \in Procs |-> <<>>]
    /\ attempts = [p \in Procs |-> <<>>]
    /\ planned = [p \in Procs |-> [k \in Keys |-> NoObject]]
    /\ lastCall = [k \in Keys |-> NoObject]

\* A host that runs one invocation after the other, no other client writing.
Init ==
    /\ host = "sequential"
    /\ bundleFile \in {"ok", "empty", "unreadable"}
    /\ \E owned \in {"absent", "desired", "drifted", "outdated"},
          flip \in OwnedKeys \cup {NoKey}, stale \in 0..MaxStale, custom \in CustomVariants :
          /\ bundleFile # "ok" => owned = "absent" /\ stale = 0 /\ custom = NoObject
          /\ flip # NoKey => bundleFile = "ok" /\ stale = 0 /\ custom = NoObject
          /\ owned = "drifted" => custom = NoObject
          /\ owned = "outdated" => custom = NoObject /\ flip = NoKey /\ stale <= 1
          /\ store = InitStore(owned, flip, stale, custom)
    /\ InitRest

\* A host that runs its invocations concurrently, beside other clients.
InitConcurrent ==
    /\ host = "concurrent"
    /\ bundleFile \in {"ok", "empty", "unreadable"}
    /\ \E owned \in {"absent", "desired"}, stale \in 0..1 :
          /\ bundleFile # "ok" => owned = "absent" /\ stale = 0
          /\ store = InitStore(owned, NoKey, stale, NoObject)
    /\ InitRest

\* One invocation, beside other clients of the store.
InitContended ==
    /\ host = "contended"
    /\ bundleFile = "ok"
    /\ \E owned \in {"absent", "desired"}, stale \in 0..MaxStale :
          store = InitStore(owned, NoKey, stale, NoObject)
    /\ InitRest

\* ----------------------------------------------------------- Reconcile
Set(p, fields) == [proc EXCEPT ![p] = fields @@ proc[p]]

\* Mutant of ReconcileReturn: the statuses are dropped when there is an error.
ReconcileReturnNil(statuses, err) ==
    [statuses |-> IF err = NilErr THEN statuses ELSE <<>>, err |-> err]

\* return common.CollectResourceStatus(request, funcs...)
ReconcileReturn(statuses, err) == [statuses |-> statuses, err |-> err]

\* Reconcile is entered: funcs holds the four fixed functions.
ReconcileBegin(p) ==
    /\ MayBegin(p)
    /\ \E ns \in TargetNamespaces :
          proc' = Set(p, [pc |-> "reconcileOlderTemplates",
                          request |-> [op |-> "Reconcile", ns |-> ns],
                          funcs |-> FixedFuncs])
    /\ UNCHANGED <<store, rvClock, bundleFile, loadTemplatesOnce, templatesBundle,
                   host, tampered, reads, calls, attempts, planned, lastCall>>

\* Mutant of olderTemplateTarget: every function shares the loop's last item.
olderTemplateTargetLast(items, i) == items[Len(items)]

\* template := &existingTemplates.Items[i]
olderTemplateTarget(items, i) == items[i]

\* The loop over existingTemplates.Items: the item is annotated in memory
\* and one function is made for it.
olderTemplateFuncs(items) ==
    [i \in 1..Len(items) |->
        [fn |-> "reconcileOlderTemplate",
         template |-> Deprecated(olderTemplateTarget(items, i)),
         index |-> i]]

\* Mutant of ListFails: a List error is passed over.
ListFailsNever(err) == FALSE

\* Whether reconcileOlderTemplates gives the List error back.
ListFails(err) == err # NilErr /\ ~IsNotFound(err)

\* The answers of the List call: the matching templates, an error, or
\* not-found, which a store gives only when it holds no template at all.
ListAnswers(st) ==
    {NilErr, StoreErr("Internal", "List", <<>>)}
        \cup (IF \A k \in TemplateKeys : st[k] = NoObject
              THEN {StoreErr("NotFound", "List", <<>>)} ELSE {})

\* Mutant of PlanStore: the loop writes each annotated item to the store.
PlanStoreWrites(st, items) ==
    [k \in Keys |->
        IF \E i \in 1..Len(items) : KeyOf(items[i]) = k
        THEN Deprecated(st[k]) ELSE st[k]]

\* The store after the loop over existingTemplates.Items: the loop calls no
\* method of request.Client.
PlanStore(st, items) == st

\* reconcileOlderTemplates, and Reconcile's handling of what it returns.
reconcileOlderTemplates(p) ==
    /\ proc[p].pc = "reconcileOlderTemplates"
    /\ \E err \in ListAnswers(store) :
          LET items == IF err = NilErr THEN ClientList(store, proc[p].request.ns) ELSE <<>>
          IN  IF ListFails(err)
              THEN /\ proc' = Set(p, [pc |-> "done", listErr |-> err,
                                      result |-> [statuses |-> <<>>, err |-> err]])
                   /\ UNCHANGED store
              ELSE /\ proc' = Set(p, [pc |-> "loadTemplatesOnce", listErr |-> err,
                                      funcs |-> AppendFuncs(proc[p].funcs, olderTemplateFuncs(items))])
                   /\ store' = PlanStore(store, items)
    /\ planned' = [planned EXCEPT ![p] = store]
    /\ UNCHANGED <<rvClock, bundleFile, loadTemplatesOnce, templatesBundle,
                   host, tampered, reads, calls, attempts, lastCall>>

\* Mutant of OnceRuns: the function runs on every call of Do.
OnceRunsAlways(once) == TRUE

\* sync.Once.Do calls its function when no call of Do has started it yet.
OnceRuns(once) == once = "new"

\* loadTemplatesOnce.Do(loadTemplates): the first caller takes the mutex and
\* runs loadTemplates; a caller that finds the load running waits; a caller
\* that finds it done goes on.
loadTemplatesOnceDo(p) ==
    /\ proc[p].pc = "loadTemplatesOnce"
    /\ IF OnceRuns(loadTemplatesOnce)
       THEN /\ loadTemplatesOnce' = "running"
            /\ proc' = Set(p, [pc |-> "loadTemplates"])
       ELSE /\ loadTemplatesOnce = "done"
            /\ proc' = Set(p, [pc |-> "reconcileTemplatesFuncs", idx |-> 1,
                               rangeLen |-> Len(templatesBundle), bundleFuncs |-> <<>>])
            /\ UNCHANGED loadTemplatesOnce
    /\ UNCHANGED <<store, rvClock, bundleFile, templatesBundle, host, tampered,
                   reads, calls, attempts, planned, lastCall>>

\* Mutant of loadTemplatesPanics: an empty bundle is accepted.
loadTemplatesPanicsOnErr(bundle, err) == err # "nil"

\* The two panics of loadTemplates.
loadTemplatesPanics(bundle, err) == err # "nil" \/ Len(bundle) = 0

\* loadTemplates, run by sync.Once: the bundle is read and assigned; a panic
\* unwinds through Do, which still marks the Once done and releases it.
loadTemplates(p) ==
    /\ proc[p].pc = "loadTemplates"
    /\ LET r == ReadTemplates(bundleFile)
       IN  /\ templatesBundle' = r.bundle
           /\ reads' = reads + 1
           /\ loadTemplatesOnce' = "done"
           /\ IF loadTemplatesPanics(r.bundle, r.err)
              THEN proc' = Set(p, [pc |-> "panicked"])
              ELSE proc' = Set(p, [pc |-> "reconcileTemplatesFuncs", idx |-> 1,
                                   rangeLen |-> Len(r.bundle), bundleFuncs |-> <<>>])
    /\ UNCHANGED <<store, rvClock, bundleFile, host, tampered, calls, attempts,
                   planned, lastCall>>

\* One turn of the loop of reconcileTemplatesFuncs over templatesBundle: the
\* shared template gets the request's namespace and a function is made for
\* it. After the last turn the functions are appended to Reconcile's funcs.
reconcileTemplatesFuncs(p) ==
    /\ proc[p].pc = "reconcileTemplatesFuncs"
    /\ IF proc[p].idx <= proc[p].rangeLen
       THEN /\ templatesBundle' =
                   [templatesBundle EXCEPT ![proc[p].idx].ns = proc[p].request.ns]
            /\ proc' = Set(p, [idx |-> proc[p].idx + 1,
                               bundleFuncs |-> Append(proc[p].bundleFuncs,
                                   [fn |-> "reconcileTemplate", template |-> NoObject,
                                    index |-> proc[p].idx])])
       ELSE /\ proc' = Set(p, [pc |-> "get", idx |-> 1,
                               funcs |-> AppendFuncs(proc[p].funcs, proc[p].bundleFuncs)])
            /\ UNCHANGED templatesBundle
    /\ UNCHANGED <<store, rvClock, bundleFile, loadTemplatesOnce, host, tampered,
                   reads, calls, attempts, planned, lastCall>>

\* ------------------------------------------- CollectResourceStatus
\* The statuses the aggregator returns when a function fails: those
\* collected so far and the status of the failing function.
CollectOnError(statuses, status) == Append(statuses, status)

Status(key, status, err) == [key |-> key, status |-> status, err |-> err]

CallRecord(p, op, desired, key, status, wrote) ==
    [index |-> proc[p].idx, fn |-> op.fn, key |-> key, desired |-> desired,
     found |-> proc[p].found, before |-> store[key], status |-> status,
     wrote |-> wrote, prev |-> lastCall[key]]

\* The function at idx returned an error: the aggregator stops and Reconcile
\* returns what it returns.
Fail(p, op, desired, key, err) ==
    /\ proc' = Set(p, [pc |-> "done", found |-> NoObject,
                       statuses |-> CollectOnError(proc[p].statuses, Status(key, "", err)),
                       result |-> ReconcileReturn(
                           CollectOnError(proc[p].statuses, Status(key, "", err)), err)])
    /\ calls' = [calls EXCEPT ![p] = Append(@, CallRecord(p, op, desired, key, "Failed", FALSE))]
    /\ lastCall' = [lastCall EXCEPT ![key] = NoObject]

\* The function at idx returned a status: the aggregator goes on with the
\* next function, or returns after the last one.
Succeed(p, op, desired, key, status, wrote) ==
    /\ LET sts == Append(proc[p].statuses, Status(key, status, NilErr))
       IN  IF proc[p].idx = Len(proc[p].funcs)
           THEN proc' = Set(p, [pc |-> "done", found |-> NoObject, statuses |-> sts,
                                result |-> ReconcileReturn(sts, NilErr)])
           ELSE proc' = Set(p, [pc |-> "get", found |-> NoObject, statuses |-> sts,
                                idx |-> proc[p].idx + 1])
    /\ calls' = [calls EXCEPT ![p] = Append(@, CallRecord(p, op, desired, key, status, wrote))]
    /\ lastCall' = [lastCall EXCEPT ![key] =
                        [fn |-> op.fn, desired |-> desired, status |-> status]]

\* The aggregator calls the function at idx, whose engine fetches the
\* existing object.
EngineGet(p) ==
    /\ proc[p].pc = "get"
    /\ LET op == proc[p].funcs[proc[p].idx]
           desired == Desired(op, templatesBundle)
           key == KeyOf(desired)
       IN  \E err \in {NilErr, StoreErr("Internal", "Get", key)} :
              IF err # NilErr
              THEN Fail(p, op, desired, key, err)
              ELSE /\ proc' = Set(p, [pc |-> "apply", found |-> ClientGet(store, key)])
                   /\ UNCHANGED <<calls, lastCall>>
    /\ UNCHANGED <<store, rvClock, bundleFile, loadTemplatesOnce, templatesBundle,
                   host, tampered, reads, attempts, planned>>

\* The engine creates the object, or merges and updates it, or leaves it.
EngineApply(p) ==
    /\ proc[p].pc = "apply"
    /\ LET op == proc[p].funcs[proc[p].idx]
           desired == Desired(op, templatesBundle)
           d == EngineDecide(op, desired, proc[p].found)
           key == KeyOf(d.obj)
       IN  IF d.call = "None"
           THEN /\ Succeed(p, op, desired, key, d.status, FALSE)
                /\ UNCHANGED <<store, rvClock>>
           ELSE \E fault \in {NilErr, StoreErr("Internal", d.call, key)} :
                   LET r == IF d.call = "Create" THEN ClientCreate(store, d.obj, rvClock[key] + 1)
                            ELSE ClientUpdate(store, d.obj, rvClock[key] + 1)
                   IN  IF fault # NilErr
                       THEN Fail(p, op, desired, key, fault) /\ UNCHANGED <<store, rvClock>>
                       ELSE IF r.err # NilErr
                       THEN Fail(p, op, desired, key, r.err) /\ UNCHANGED <<store, rvClock>>
                       ELSE /\ store' = r.store
                            /\ rvClock' = [rvClock EXCEPT ![key] = @ + 1]
                            /\ Succeed(p, op, desired, key, d.status, TRUE)
    /\ UNCHANGED <<bundleFile, loadTemplatesOnce, templatesBundle, host, tampered,
                   reads, attempts, planned>>

\* ------------------------------------------------------------- Cleanup
CleanupObjects ==
    <<Func("newGoldenImagesNS"), Func("newViewRole"), Func("newViewRoleBinding"),
      Func("newEditRole")>>

\* Cleanup is entered: objects holds the four fixed objects.
CleanupBegin(p) ==
    /\ MayBegin(p)
    /\ \E ns \in TargetNamespaces :
          proc' = Set(p, [pc |-> "cleanupRange", request |-> [op |-> "Cleanup", ns |-> ns],
                          funcs |-> CleanupObjects, idx |-> 1,
                          rangeLen |-> Len(templatesBundle)])
    /\ UNCHANGED <<store, rvClock, bundleFile, loadTemplatesOnce, templatesBundle,
                   host, tampered, reads, calls, attempts, planned, lastCall>>

\* One turn of Cleanup's loop over templatesBundle: the shared template gets
\* the request's namespace and its address is appended to objects.
CleanupRange(p) ==
    /\ proc[p].pc = "cleanupRange"
    /\ IF proc[p].idx <= proc[p].rangeLen
       THEN /\ templatesBundle' =
                   [templatesBundle EXCEPT ![proc[p].idx].ns = proc[p].request.ns]
            /\ proc' = Set(p, [idx |-> proc[p].idx + 1,
                               funcs |-> Append(proc[p].funcs,
                                   [fn |-> "templatesBundle", template |-> NoObject,
                                    index |-> proc[p].idx])])
       ELSE /\ proc' = Set(p, [pc |-> "delete", idx |-> 1])
            /\ UNCHANGED templatesBundle
    /\ UNCHANGED <<store, rvClock, bundleFile, loadTemplatesOnce, host, tampered,
                   reads, calls, attempts, planned, lastCall>>

\* Mutant of CleanupStops: a not-found answer stops the pass too.
CleanupStopsOnAny(err) == err # NilErr

\* Mutant of CleanupStops: no error stops the pass.
CleanupStopsNever(err) == FALSE

\* if err != nil && !errors.IsNotFound(err) { return err }
CleanupStops(err) == err # NilErr /\ ~IsNotFound(err)

\* One turn of Cleanup's delete loop.
CleanupDelete(p) ==
    /\ proc[p].pc = "delete"
    /\ LET key == KeyOf(Resource(proc[p].funcs[proc[p].idx], templatesBundle))
       IN  \E fault \in {NilErr, StoreErr("Internal", "Delete", key)} :
              LET r == IF fault # NilErr THEN [store |-> store, err |-> fault]
                       ELSE ClientDelete(store, key)
              IN  /\ store' = r.store
                  /\ attempts' = [attempts EXCEPT ![p] = Append(@, [key |-> key, err |-> r.err])]
                  /\ lastCall' = [lastCall EXCEPT ![key] = NoObject]
                  /\ IF CleanupStops(r.err)
                     THEN proc' = Set(p, [pc |-> "done",
                                          result |-> [statuses |-> <<>>, err |-> r.err]])
                     ELSE IF proc[p].idx = Len(proc[p].funcs)
                     THEN proc' = Set(p, [pc |-> "done",
                                          result |-> [statuses |-> <<>>, err |-> NilErr]])
                     ELSE proc' = Set(p, [idx |-> proc[p].idx + 1])
    /\ UNCHANGED <<rvClock, bundleFile, loadTemplatesOnce, templatesBundle, host,
                   tampered, reads, calls, planned>>

\* ------------------------------------------- other clients of the store
\* What another client may write over a stored object.
OtherWrites(obj) ==
    {Drifted(obj)} \cup
    (IF obj.kind = "Template"
     THEN {[obj EXCEPT !.labels = MapSet(@, <<TemplateOsLabelPrefix, "fedora">>, "true")],
           [obj EXCEPT !.labels = MapSet(@, TemplateVersionLabel, Version)],
           [obj EXCEPT !.annotations = MapSet(@, DescriptionAnnotation, "edited")]}
     ELSE {})

\* The key an invocation is about to read, write or delete.
Pending(p) ==
    IF proc[p].pc \in {"get", "apply"}
    THEN {KeyOf(Desired(proc[p].funcs[proc[p].idx], templatesBundle))}
    ELSE IF proc[p].pc = "delete"
    THEN {KeyOf(Resource(proc[p].funcs[proc[p].idx], templatesBundle))}
    ELSE {}

\* Another client deletes, rewrites or deploys an object an invocation is
\* about to act on (a write to any other object commutes with the steps of
\* the invocations up to the next access of that object).
Tamper ==
    /\ tampered < MaxTamper
    /\ \E p \in Procs : \E k \in Pending(p) :
          /\ \/ /\ store[k] # NoObject
                /\ store' = [store EXCEPT ![k] = NoObject]
                /\ UNCHANGED rvClock
             \/ /\ store[k] # NoObject
                /\ \E o \in OtherWrites(store[k]) \ {store[k]} :
                      store' = [store EXCEPT ![k] = [o EXCEPT !.rv = rvClock[k] + 1]]
                /\ rvClock' = [rvClock EXCEPT ![k] = @ + 1]
             \/ /\ store[k] = NoObject
                /\ k[1] = "Template"
                /\ store' = [store EXCEPT ![k] =
                                [StaleTemplate(k[2], k[3], 1) EXCEPT
                                    !.rv = rvClock[k] + 1, !.created = rvClock[k] + 1]]
                /\ rvClock' = [rvClock EXCEPT ![k] = @ + 1]
          /\ lastCall' = [lastCall EXCEPT ![k] = NoObject]
    /\ tampered' = tampered + 1
    /\ UNCHANGED <<bundleFile, loadTemplatesOnce, templatesBundle, proc, host,
                   reads, calls, attempts, planned>>

\* ------------------------------------------------------- specification
Next ==
    \/ \E p \in Procs : ReconcileBegin(p)
    \/ \E p \in Procs : reconcileOlderTemplates(p)
    \/ \E p \in Procs : loadTemplatesOnceDo(p)
    \/ \E p \in Procs : loadTemplates(p)
    \/ \E p \in Procs : reconcileTemplatesFuncs(p)
    \/ \E p \in Procs : EngineGet(p)
    \/ \E p \in Procs : EngineApply(p)
    \/ \E p \in Procs : CleanupBegin(p)
    \/ \E p \in Procs : CleanupRange(p)
    \/ \E p \in Procs : CleanupDelete(p)

Spec == Init /\ [][Next]_vars

SpecConcurrent == InitConcurrent /\ [][Next]_vars

NextContended == Next \/ Tamper

SpecContended == InitContended /\ [][NextContended]_vars

\* ------------------------------------------------------------- claims
Reconciling(p) == proc[p].request.op = "Reconcile"

Cleaning(p) == proc[p].request.op = "Cleanup"

Ok(c) == c.status \in {"Created", "Updated", "Unchanged"}

\* No invocation with a higher number has begun: p is the latest one.
Latest(p) == \A q \in Procs : q > p => proc[q].pc = "idle"

\* C1: the aggregator stops at the first function that returns an error. The
\* calls made are those of positions 1..k in this order, every call before k
\* succeeded, none after k was made, and Reconcile returns the k statuses
\* collected (the k-th being that of the failing function) and the error of
\* the k-th function.
C1_ShortCircuit ==
    \A p \in Procs :
        LET c == calls[p]
        IN  \A i \in 1..Len(c) :
               /\ c[i].index = i
               /\ c[i].status = "Failed" =>
                     /\ i = Len(c)
                     /\ \A j \in 1..(i - 1) : Ok(c[j])
                     /\ proc[p].pc = "done"
                     /\ Len(proc[p].result.statuses) = i
                     /\ \A j \in 1..(i - 1) :
                           /\ proc[p].result.statuses[j].status = c[j].status
                           /\ proc[p].result.statuses[j].err = NilErr
                     /\ proc[p].result.statuses[i].key = c[i].key
                     /\ proc[p].result.err = proc[p].result.statuses[i].err
                     /\ proc[p].result.err # NilErr
                     /\ proc[p].result.err.key = c[i].key

\* C1 witness: [ok, ok, fail, ok, ...]: the third of at least four functions
\* failed and Reconcile returned three statuses.
C1_Witness ==
    \E p \in Procs :
        /\ proc[p].pc = "done"
        /\ Len(proc[p].funcs) >= 4
        /\ Len(calls[p]) = 3
        /\ Ok(calls[p][1]) /\ Ok(calls[p][2])
        /\ calls[p][3].status = "Failed"
        /\ Len(proc[p].result.statuses) = 3

FnAt(p, i) == calls[p][i].fn

\* C2 as stated: when the role binding is reconciled, the view Role and the
\* edit ClusterRole were both reconciled before it.
C2_Original ==
    \A p \in Procs : \A i \in 1..Len(calls[p]) :
        FnAt(p, i) = "reconcileViewRoleBinding" =>
            /\ \E j \in 1..(i - 1) : FnAt(p, j) = "reconcileViewRole"
            /\ \E j \in 1..(i - 1) : FnAt(p, j) = "reconcileEditRole"

\* C2 amended: the functions run in the order of the list Reconcile builds;
\* the namespace is reconciled before the view Role and the edit ClusterRole,
\* the view Role before the role binding (the edit ClusterRole comes after
\* the binding), and every fixed and every migration function before any
\* bundle-template function.
C2_Order ==
    \A p \in Procs : \A i \in 1..Len(calls[p]) :
        /\ calls[p][i].index = i
        /\ i <= Len(proc[p].funcs) /\ FnAt(p, i) = proc[p].funcs[i].fn
        /\ FnAt(p, i) \in {"reconcileViewRole", "reconcileEditRole"} =>
              \E j \in 1..(i - 1) : FnAt(p, j) = "reconcileGoldenImagesNS"
        /\ FnAt(p, i) = "reconcileViewRoleBinding" =>
              \E j \in 1..(i - 1) : FnAt(p, j) = "reconcileViewRole"
        /\ FnAt(p, i) = "reconcileEditRole" =>
              \E j \in 1..(i - 1) : FnAt(p, j) = "reconcileViewRoleBinding"
        /\ FnAt(p, i) = "reconcileTemplate" =>
              /\ \A f \in {"reconcileGoldenImagesNS", "reconcileViewRole",
                           "reconcileViewRoleBinding", "reconcileEditRole"} :
                    \E j \in 1..(i - 1) : FnAt(p, j) = f
              /\ \A j \in 1..Len(proc[p].funcs) :
                    proc[p].funcs[j].fn # "reconcileTemplate" => j < i

\* C2 witness: a Reconcile ran all its functions, migration functions and
\* bundle-template functions among them.
C2_Witness ==
    \E p \in Procs :
        /\ proc[p].pc = "done" /\ Reconciling(p)
        /\ Len(calls[p]) = Len(proc[p].funcs)
        /\ \E i \in 1..Len(calls[p]) : FnAt(p, i) = "reconcileOlderTemplate"
        /\ \E i \in 1..Len(calls[p]) : FnAt(p, i) = "reconcileTemplate"

Form(obj) == [obj EXCEPT !.rv = 0, !.created = 0]

\* A call that follows a call of the same function for the same desired
\* object, no other write having touched the object in between.
Repeats(c) ==
    /\ c.prev # NoObject
    /\ c.prev.fn = c.fn
    /\ c.prev.desired = c.desired

Idempotent(c) ==
    /\ c.found = NoObject => c.status = "Created" /\ c.wrote
    /\ c.found # NoObject /\ Form(c.found) = Form(c.desired) =>
          c.status = "Unchanged" /\ ~c.wrote
    /\ Repeats(c) /\ c.prev.status \in {"Created", "Unchanged"} =>
          c.status = "Unchanged" /\ ~c.wrote

\* C3 as stated: for every function, a call that finds the object absent
\* creates it, a call that finds it in its desired form reports Unchanged,
\* and a call that follows a Created or Unchanged call reports Unchanged and
\* writes nothing.
C3_Original ==
    \A p \in Procs : \A i \in 1..Len(calls[p]) :
        Ok(calls[p][i]) => Idempotent(calls[p][i])

\* C3 amended: the same, for the four fixed functions and the
\* bundle-template functions (whose update functions copy fields of the
\* desired object); not for the migration functions.
C3_Idempotent ==
    \A p \in Procs : \A i \in 1..Len(calls[p]) :
        Ok(calls[p][i]) /\ FnAt(p, i) # "reconcileOlderTemplate" =>
            Idempotent(calls[p][i])

\* C3 witness: a bundle template was created by one Reconcile and found
\* unchanged by the next, and a role found in its desired form was left
\* unchanged twice.
C3_Witness ==
    /\ \E i \in 1..Len(calls[2]) :
          /\ FnAt(2, i) = "reconcileTemplate"
          /\ Repeats(calls[2][i])
          /\ calls[2][i].prev.status = "Created"
          /\ calls[2][i].status = "Unchanged"
    /\ \E i \in 1..Len(calls[2]) :
          /\ FnAt(2, i) = "reconcileGoldenImagesNS"
          /\ Repeats(calls[2][i])
          /\ calls[2][i].prev.status = "Created"

ManagedKeys == {AppNameLabel, AppComponentLabel}

\* C4: after a call that created the object or took the merge path, and
\* while no other write touched the object, the stored object carries every
\* key of the managed label set.
C4_ManagedLabels ==
    \A k \in Keys :
        lastCall[k] # NoObject =>
            /\ store[k] # NoObject
            /\ ManagedKeys \subseteq DOMAIN store[k].labels

\* C4 witness: the merge path was taken on stored objects that carried none
\* of the managed labels, by a migration function (whose update function
\* deletes labels) and by a role function, and an object was created.
C4_Witness ==
    \E p \in Procs :
        /\ \E i \in 1..Len(calls[p]) :
              /\ FnAt(p, i) = "reconcileOlderTemplate"
              /\ calls[p][i].status = "Updated"
              /\ calls[p][i].found # NoObject
              /\ DOMAIN calls[p][i].found.labels \cap ManagedKeys = {}
              /\ lastCall[calls[p][i].key] # NoObject
        /\ \E i \in 1..Len(calls[p]) :
              /\ FnAt(p, i) = "reconcileViewRole"
              /\ calls[p][i].status = "Updated"
              /\ DOMAIN calls[p][i].found.labels \cap ManagedKeys = {}

\* The templates of the store st that are base templates of namespace ns
\* and not of the current version.
StaleKeys(st, ns) ==
    {k \in TemplateKeys :
        /\ st[k] # NoObject
        /\ k[2] = ns
        /\ Has(st[k].labels, TemplateTypeLabel, "base")
        /\ ~Has(st[k].labels, TemplateVersionLabel, Version)}

Planned(p) ==
    Reconciling(p) /\ proc[p].pc \notin {"idle", "reconcileOlderTemplates"}
        /\ ~ListFails(proc[p].listErr)

OlderIndexes(p) ==
    {i \in 1..Len(proc[p].funcs) : proc[p].funcs[i].fn = "reconcileOlderTemplate"}

\* C5: the plan holds exactly one function per stale base template of the
\* target namespace in the store that was listed, and none for any other
\* object; the migration functions act on those templates only, and a
\* template that is neither stale nor named by the bundle is left as it was.
C5_Selection ==
    \A p \in Procs :
        Planned(p) =>
            LET stale == StaleKeys(planned[p], proc[p].request.ns)
            IN  /\ Cardinality(OlderIndexes(p)) = Cardinality(stale)
                /\ {KeyOf(proc[p].funcs[i].template) : i \in OlderIndexes(p)} = stale
                /\ \A i \in 1..Len(calls[p]) :
                      FnAt(p, i) = "reconcileOlderTemplate" => calls[p][i].key \in stale
                /\ Latest(p) =>
                      \A k \in TemplateKeys \ stale :
                          k[3][1] # "common" => store[k] = planned[p][k]

CurrentKeys(st, ns) ==
    {k \in TemplateKeys :
        /\ st[k] # NoObject
        /\ k[2] = ns
        /\ Has(st[k].labels, TemplateVersionLabel, Version)}

\* C5 witness: three stale templates and at least two templates of the
\* current version were listed, three migration functions ran, and the
\* templates of the current version are as they were.
C5_Witness ==
    \E p \in Procs :
        /\ Planned(p) /\ Latest(p) /\ proc[p].pc = "done"
        /\ Cardinality(StaleKeys(planned[p], proc[p].request.ns)) = 3
        /\ Cardinality(CurrentKeys(planned[p], proc[p].request.ns)) >= 2
        /\ Cardinality({i \in 1..Len(calls[p]) :
                           FnAt(p, i) = "reconcileOlderTemplate" /\ Ok(calls[p][i])}) = 3
        /\ \A k \in CurrentKeys(planned[p], proc[p].request.ns) : store[k] = planned[p][k]

Migrated(obj) ==
    /\ obj # NoObject
    /\ Has(obj.annotations, TemplateDeprecatedAnnotation, "true")
    /\ \A k \in DOMAIN obj.labels : ~ReservedPrefix(k)

\* C6: when every function of a Reconcile has succeeded, the migration
\* functions have acted on pairwise different templates, each on the stale
\* template it was made for, and each of these templates is annotated
\* deprecated in the store and has no label with a reserved prefix.
C6_EachMigrated ==
    \A p \in Procs :
        /\ proc[p].pc = "done" /\ Planned(p) /\ proc[p].result.err = NilErr
        /\ Latest(p)
        =>  /\ \A i \in OlderIndexes(p) :
                  /\ calls[p][i].key = KeyOf(proc[p].funcs[i].template)
                  /\ \A j \in OlderIndexes(p) : j # i => calls[p][j].key # calls[p][i].key
            /\ \A k \in StaleKeys(planned[p], proc[p].request.ns) : Migrated(store[k])

\* C6 witness: a Reconcile succeeded whose plan held at least two stale
\* templates with different reserved labels, none of them migrated before.
C6_Witness ==
    \E p \in Procs :
        /\ proc[p].pc = "done" /\ Planned(p) /\ proc[p].result.err = NilErr
        /\ Latest(p)
        /\ Cardinality(OlderIndexes(p)) >= 2
        /\ \A k \in StaleKeys(planned[p], proc[p].request.ns) : ~Migrated(planned[p][k])
        /\ \E k1, k2 \in StaleKeys(planned[p], proc[p].request.ns) :
              DOMAIN planned[p][k1].labels # DOMAIN planned[p][k2].labels

\* The invocations that have gone through loadTemplatesOnce.Do and on.
PastOnce(p) ==
    Reconciling(p) /\ proc[p].pc \in {"reconcileTemplatesFuncs", "get", "apply"}

Content(bundle) == [i \in 1..Len(bundle) |-> [bundle[i] EXCEPT !.ns = ""]]

\* C7: ReadTemplates runs at most once, and exactly once as soon as a call
\* of reconcileTemplatesFuncs has gone past loadTemplatesOnce.Do; a call that
\* has gone past it finds the load completed and ranges over the templates
\* that this one load cached, which no later call replaces.
C7_SingleLoad ==
    /\ reads <= 1
    /\ reads = 1 <=> loadTemplatesOnce = "done"
    /\ loadTemplatesOnce = "done" =>
          Content(templatesBundle) = Content(ReadTemplates(bundleFile).bundle)
    /\ \A p \in Procs :
          PastOnce(p) =>
              /\ loadTemplatesOnce = "done"
              /\ reads = 1
              /\ proc[p].rangeLen = Len(templatesBundle)

\* C7 witness: two calls are past loadTemplatesOnce.Do at the same time,
\* over a bundle that is not empty.
C7_Witness ==
    /\ PastOnce(1) /\ PastOnce(2)
    /\ proc[1].pc = "reconcileTemplatesFuncs" /\ proc[2].pc = "reconcileTemplatesFuncs"
    /\ Len(templatesBundle) >= 2

\* The objects Cleanup lists: the four fixed ones and the bundle templates
\* that were cached when it ranged over templatesBundle, in its namespace.
CleanupKeys(p) ==
    FixedKeys \cup {<<"Template", proc[p].request.ns, <<"common", i>>>> :
                       i \in 1..proc[p].rangeLen}

AttemptKeys(p) == {attempts[p][i].key : i \in 1..Len(attempts[p])}

Tolerated(err) == err = NilErr \/ err.code = "NotFound"

\* C8: a Cleanup in which no delete failed for a reason other than
\* not-found returns no error and has issued one delete per listed object.
C8_CleanupTolerant ==
    \A p \in Procs :
        /\ Cleaning(p) /\ proc[p].pc = "done"
        /\ \A i \in 1..Len(attempts[p]) : Tolerated(attempts[p][i].err)
        =>  /\ proc[p].result.err = NilErr
            /\ AttemptKeys(p) = CleanupKeys(p)
            /\ Len(attempts[p]) = Cardinality(CleanupKeys(p))

\* C8 witness: a Cleanup over fixed objects and bundle templates returned no
\* error; a delete that was answered not-found was followed by a delete that
\* removed an object.
C8_Witness ==
    \E p \in Procs :
        /\ Cleaning(p) /\ proc[p].pc = "done" /\ proc[p].result.err = NilErr
        /\ proc[p].rangeLen >= 2
        /\ \E i, j \in 1..Len(attempts[p]) :
              /\ i < j
              /\ attempts[p][i].err.code = "NotFound"
              /\ attempts[p][j].err = NilErr

\* C9: a delete that fails for another reason is the last one Cleanup
\* issues: Cleanup returns its error, the object was tried once, no later
\* object is tried, and what was deleted before stays deleted.
C9_CleanupAborts ==
    \A p \in Procs : \A i \in 1..Len(attempts[p]) :
        ~Tolerated(attempts[p][i].err) =>
            /\ i = Len(attempts[p])
            /\ proc[p].pc = "done"
            /\ proc[p].result.err = attempts[p][i].err
            /\ \A j \in 1..(i - 1) : attempts[p][j].key # attempts[p][i].key
            /\ Latest(p) => \A j \in 1..(i - 1) : store[attempts[p][j].key] = NoObject

\* C9 witness: a delete failed after an object was deleted and before the
\* last listed object was tried, which is still in the store.
C9_Witness ==
    \E p \in Procs :
        /\ Cleaning(p) /\ proc[p].pc = "done" /\ Latest(p)
        /\ Len(attempts[p]) >= 2
        /\ Len(attempts[p]) < Len(proc[p].funcs)
        /\ ~Tolerated(attempts[p][Len(attempts[p])].err)
        /\ attempts[p][1].err = NilErr
        /\ \E k \in CleanupKeys(p) \ AttemptKeys(p) : store[k] # NoObject

Panicked == {p \in Procs : proc[p].pc = "panicked"}

\* C10: with a bundle file that cannot be read or holds no template, every
\* execution of the load ends in a panic: the invocation that ran it has no
\* result, made no engine call and built no bundle-template function; the
\* load ran at most once, and no bundle-template function exists or ran.
C10_FatalLoad ==
    bundleFile # "ok" =>
        /\ reads <= 1
        /\ Cardinality(Panicked) = reads
        /\ \A p \in Panicked :
              /\ proc[p].result = NoResult
              /\ proc[p].statuses = <<>>
              /\ calls[p] = <<>>
        /\ \A p \in Procs :
              /\ \A i \in 1..Len(proc[p].funcs) : proc[p].funcs[i].fn # "reconcileTemplate"
              /\ proc[p].bundleFuncs = <<>>
              /\ \A i \in 1..Len(calls[p]) : FnAt(p, i) # "reconcileTemplate"

\* C10 witness: the load panicked on an empty bundle while another
\* invocation was running, which later came to its end.
C10_Witness ==
    /\ bundleFile = "empty"
    /\ proc[1].pc = "panicked"
    /\ proc[2].pc = "done" /\ Reconciling(2)
    /\ Len(calls[2]) >= 1

\* The object a call that wrote has sent to the store.
Written(c) ==
    IF c.status = "Created" THEN c.desired
    ELSE Merged([fn |-> c.fn], c.desired, c.found)

\* What a migration computed from the stored object alone leaves of it.
MigratedFrom(obj) ==
    Deprecated(olderTemplateUpdateFunc(obj, WithAppLabels(obj, operandName, operandComponent)))

\* C11: a write of a reconcile function never overwrites unseen what another
\* writer did: the object stored when the write is made is the one the engine
\* fetched (a write over any other version is rejected), and what a migration
\* function writes is computed from that latest stored version, whatever the
\* list taken at the start of Reconcile held.
C11_NoLostUpdate ==
    \A p \in Procs : \A i \in 1..Len(calls[p]) :
        LET c == calls[p][i]
        IN  c.wrote =>
              /\ c.before = c.found
              /\ c.fn = "reconcileOlderTemplate" =>
                    /\ c.before # NoObject
                    /\ Form(Written(c)) = Form(MigratedFrom(c.before))

\* The part of C11 that the engine's fetch and the version token carry: a
\* write lands only on the version that was fetched.
C11_WriteOnFetched ==
    \A p \in Procs : \A i \in 1..Len(calls[p]) :
        calls[p][i].wrote => calls[p][i].before = calls[p][i].found

\* Another writer changed the object between the fetch and the write, and
\* the write was rejected.
C11_Rejected ==
    \E p \in Procs : \E i \in 1..Len(calls[p]) :
        /\ calls[p][i].before # calls[p][i].found
        /\ calls[p][i].status = "Failed"
        /\ proc[p].result.err.code \in {"Conflict", "AlreadyExists", "NotFound"}

ListFailed(p) == proc[p].listErr.code \notin {"none", "nil", "NotFound"}

FixedFnSeq ==
    <<"reconcileGoldenImagesNS", "reconcileViewRole", "reconcileViewRoleBinding",
      "reconcileEditRole">>

\* C12: when the List of reconcileOlderTemplates fails with an error other
\* than not-found, Reconcile returns this error and no status, has called no
\* function and has left the store as it was. When the List answers
\* not-found or no stale template matches, the plan holds no migration
\* function, Reconcile's list begins with the four fixed functions, and a
\* Reconcile that ends without error has run these four and then one
\* function per cached bundle template.
C12_ListOutcome ==
    \A p \in Procs :
        Reconciling(p) /\ proc[p].pc \notin {"idle", "reconcileOlderTemplates"} =>
            IF ListFailed(p)
            THEN /\ proc[p].pc = "done"
                 /\ proc[p].result = [statuses |-> <<>>, err |-> proc[p].listErr]
                 /\ calls[p] = <<>>
                 /\ Latest(p) => store = planned[p]
            ELSE \/ /\ proc[p].listErr.code # "NotFound"
                    /\ StaleKeys(planned[p], proc[p].request.ns) # {}
                 \/ /\ OlderIndexes(p) = {}
                    /\ Len(proc[p].funcs) >= 4
                    /\ SubSeq(proc[p].funcs, 1, 4) = FixedFuncs
                    /\ proc[p].pc = "done" /\ proc[p].result.err = NilErr =>
                          /\ Len(calls[p]) = 4 + Len(templatesBundle)
                          /\ \A i \in 1..Len(calls[p]) :
                                /\ Ok(calls[p][i])
                                /\ FnAt(p, i) = IF i <= 4 THEN FixedFnSeq[i]
                                                ELSE "reconcileTemplate"

\* C12 witness: a Reconcile whose List failed left a store without the
\* namespace as it was; the next Reconcile, whose List was answered
\* not-found, ran the four fixed functions and the bundle-template functions.
C12_Witness ==
    /\ Reconciling(1) /\ ListFailed(1)
    /\ planned[2][KeyOf(newGoldenImagesNS(GoldenImagesNSname))] = NoObject
    /\ Reconciling(2) /\ proc[2].listErr.code = "NotFound"
    /\ proc[2].pc = "done" /\ proc[2].result.err = NilErr
    /\ Len(calls[2]) = 4 + BundleSize

\* The calls of invocation p that wrote the object at key k.
WritesOn(p, k) == {i \in 1..Len(calls[p]) : calls[p][i].key = k /\ calls[p][i].wrote}

\* C13: reconcileOlderTemplates leaves the store as it found it: when it has
\* returned its plan the store is the one that was listed, while every
\* function of the plan carries its template annotated deprecated in memory;
\* afterwards a listed stale template stays in the store as it was listed
\* until a function run by the aggregator writes it.
C13_PlanningPure ==
    \A p \in Procs :
        Planned(p) /\ Latest(p) =>
            /\ proc[p].pc = "loadTemplatesOnce" => store = planned[p]
            /\ \A i \in OlderIndexes(p) :
                  Has(proc[p].funcs[i].template.annotations,
                      TemplateDeprecatedAnnotation, "true")
            /\ \A k \in StaleKeys(planned[p], proc[p].request.ns) :
                  WritesOn(p, k) = {} => store[k] = planned[p][k]

\* C13 witness: the plan for two or more stale templates, none migrated
\* before, was built and the fixed functions ran; the first migration
\* function is about to run and no stale template was written yet.
C13_Witness ==
    \E p \in Procs :
        /\ Planned(p) /\ Latest(p)
        /\ proc[p].pc = "get" /\ proc[p].idx = 5
        /\ Cardinality(OlderIndexes(p)) >= 2
        /\ \A k \in StaleKeys(planned[p], proc[p].request.ns) :
              /\ ~Migrated(store[k])
              /\ \E l \in DOMAIN store[k].labels : ReservedPrefix(l)
              /\ WritesOn(p, k) = {}

\* The fields of body other than those of fields are in m as in foundRes.
BodyFrame(m, foundRes, fields) ==
    /\ DOMAIN m.body = DOMAIN foundRes.body
    /\ \A f \in DOMAIN foundRes.body \ fields : m.body[f] = foundRes.body[f]

\* What the update function of fn may change of foundRes.
MergeFrame(fn, newRes, foundRes) ==
    LET m == UpdateFunc([fn |-> fn], newRes, foundRes)
    IN  /\ m.kind = foundRes.kind /\ m.name = foundRes.name /\ m.ns = foundRes.ns
        /\ m.rv = foundRes.rv /\ m.created = foundRes.created
        /\ m.annotations = foundRes.annotations
        /\ CASE fn = "reconcileGoldenImagesNS" -> m = foundRes
             [] fn \in {"reconcileViewRole", "reconcileEditRole"} ->
                   /\ m.labels = foundRes.labels
                   /\ BodyFrame(m, foundRes, {"Rules"})
                   /\ m.body.Rules = newRes.body.Rules
             [] fn = "reconcileViewRoleBinding" ->
                   /\ m.labels = foundRes.labels
                   /\ BodyFrame(m, foundRes, {"Subjects", "RoleRef"})
                   /\ m.body.Subjects = newRes.body.Subjects
                   /\ m.body.RoleRef = newRes.body.RoleRef
             [] fn = "reconcileTemplate" ->
                   /\ m.labels = foundRes.labels
                   /\ BodyFrame(m, foundRes, {"Objects", "Parameters"})
                   /\ m.body.Objects = newRes.body.Objects
                   /\ m.body.Parameters = newRes.body.Parameters
             [] fn = "reconcileOlderTemplate" ->
                   /\ m.body = foundRes.body
                   /\ DOMAIN m.labels = {k \in DOMAIN foundRes.labels : ~ReservedPrefix(k)}
                   /\ \A k \in DOMAIN m.labels : m.labels[k] = foundRes.labels[k]
                   /\ \A k \in {TemplateTypeLabel, TemplateVersionLabel} :
                         k \in DOMAIN foundRes.labels => k \in DOMAIN m.labels

\* C14: the update function of every reconcile function, applied to the
\* desired object and to any object the engine found, changes only its own
\* fields: Rules (view Role, edit ClusterRole), Subjects and RoleRef
\* (RoleBinding), Objects and Parameters (bundle template), the labels with
\* a reserved prefix (stale template), nothing (namespace); kind, name,
\* namespace, version token, creation time, annotations and every other
\* label and field are those of the found object.
C14_MergeFrame ==
    \A p \in Procs : \A i \in 1..Len(calls[p]) :
        calls[p][i].found # NoObject =>
            MergeFrame(FnAt(p, i), calls[p][i].desired, calls[p][i].found)

Merges(p, fn) ==
    \E i \in 1..Len(calls[p]) :
        /\ FnAt(p, i) = fn
        /\ calls[p][i].found # NoObject
        /\ calls[p][i].found.rv > 0 /\ calls[p][i].found.created > 0
        /\ fn # "reconcileGoldenImagesNS" => calls[p][i].status = "Updated"
        /\ fn = "reconcileEditRole" =>
              calls[p][i].found.body.AggregationRule # calls[p][i].desired.body.AggregationRule
        /\ fn = "reconcileTemplate" =>
              calls[p][i].found.body.Message # calls[p][i].desired.body.Message

\* C14 witness: one Reconcile took the merge path with each of its kinds of
\* function, on stored objects that differ from the desired ones also in
\* fields the update functions do not copy.
C14_Witness ==
    \E p \in Procs :
        \A fn \in {"reconcileGoldenImagesNS", "reconcileViewRole", "reconcileViewRoleBinding",
                   "reconcileEditRole", "reconcileOlderTemplate", "reconcileTemplate"} :
            Merges(p, fn)

\* C15: every bundle-template function of an invocation acts on a template
\* of the invocation's own target namespace, whatever other invocations of
\* the process do in between.
C15_OwnNamespace ==
    \A p \in Procs : \A i \in 1..Len(calls[p]) :
        FnAt(p, i) = "reconcileTemplate" /\ calls[p][i].wrote =>
            calls[p][i].key[2] = proc[p].request.ns

\* C16: no migration function reports Created: a stale template that was
\* listed and is gone when its function runs is not put back into the store.
C16_NeverCreates ==
    \A p \in Procs : \A i \in 1..Len(calls[p]) :
        FnAt(p, i) = "reconcileOlderTemplate" => calls[p][i].status # "Created"

\* The invocations whose call of reconcileTemplatesFuncs has returned.
Returned(p) == Planned(p) /\ proc[p].pc \in {"get", "apply", "done"}

\* C17: a call of reconcileTemplatesFuncs that returns gives at least one
\* function, and one per template of the bundle, also when an earlier or
\* concurrent call ran a load that failed.
C17_NonEmptyPlan ==
    \A p \in Procs :
        Returned(p) =>
            /\ Len(proc[p].bundleFuncs) >= 1
            /\ Len(proc[p].bundleFuncs) = BundleSize

\* Invocation q is a Reconcile that began after the Reconcile p, the
\* invocation before it, had returned without error.
SecondPass(p, q) ==
    /\ q = p + 1
    /\ Reconciling(p) /\ proc[p].pc = "done" /\ proc[p].result.err = NilErr
    /\ Reconciling(q) /\ proc[q].request.ns = proc[p].request.ns

\* C18: a Reconcile that follows a Reconcile that returned without error,
\* nothing else having written in between, writes nothing: each of its
\* functions that returns a status returns Unchanged, the migration
\* functions for the templates migrated by the first pass included, and when
\* it returns the store is the one it started from.
C18_Fixpoint ==
    \A p, q \in Procs :
        SecondPass(p, q) =>
            /\ \A i \in 1..Len(calls[q]) :
                  /\ ~calls[q][i].wrote
                  /\ calls[q][i].status \in {"Unchanged", "Failed"}
            /\ Planned(q) => store = planned[q]
            /\ proc[q].pc = "done" /\ proc[q].result.err = NilErr =>
                  /\ Len(calls[q]) = Len(calls[p])
                  /\ \A i \in 1..Len(calls[q]) :
                        /\ calls[q][i].status = "Unchanged"
                        /\ calls[q][i].key = calls[p][i].key

\* C18 witness: the first pass migrated two or more stale templates and
\* updated or created the other objects; the second pass listed the same
\* templates again and returned Unchanged for every function.
C18_Witness ==
    \E p, q \in Procs :
        /\ SecondPass(p, q)
        /\ proc[q].pc = "done" /\ proc[q].result.err = NilErr
        /\ Cardinality({i \in 1..Len(calls[p]) :
                           FnAt(p, i) = "reconcileOlderTemplate"
                               /\ calls[p][i].status = "Updated"}) >= 2
        /\ Cardinality({i \in 1..Len(calls[q]) :
                           FnAt(q, i) = "reconcileOlderTemplate"
                               /\ calls[q][i].status = "Unchanged"}) >= 2
        /\ \E i \in 1..Len(calls[p]) :
              FnAt(p, i) = "reconcileTemplate" /\ calls[p][i].wrote

\* The objects a Reconcile for namespace ns creates.
ReconcileCreates(ns) ==
    FixedKeys \cup {<<"Template", ns, <<"common", i>>>> : i \in 1..BundleSize}

\* C19: when a Cleanup has returned without error, no invocation running
\* beside or after it, the store holds none of the objects Reconcile
\* creates: neither the namespace, the roles and the role binding nor a
\* bundle template of the target namespace.
C19_CleanupRemoves ==
    \A p \in Procs :
        /\ Cleaning(p) /\ proc[p].pc = "done" /\ proc[p].result.err = NilErr
        /\ Latest(p)
        =>  \A k \in ReconcileCreates(proc[p].request.ns) : store[k] = NoObject

====
